---- MODULE Spec2Model ----
(***************************************************************************)
(* Model of api/proxy.js: the serverless handler that forwards a topic to  *)
(* the Gemini API and relays the JSON answer.                              *)
(*                                                                         *)
(* Several invocations of handler run on one event loop.  Everything an    *)
(* invocation does between two awaits is one atomic step; the awaits are   *)
(* fetch(...) (line 57), geminiResponse.text() (line 65) and               *)
(* geminiResponse.json() (line 70).                                        *)
(*                                                                         *)
(* JavaScript values are tagged records.  Template literals and error      *)
(* messages are sequences of string parts.  The Chinese string literals of *)
(* the source are written as ASCII translations.  console.error is         *)
(* process-wide; the model keeps, per invocation, the entries that         *)
(* invocation wrote.                                                       *)
(***************************************************************************)
EXTENDS Naturals, Sequences, FiniteSets, TLC

\* Number of handler invocations that may be in flight together.
NumInvocations == 2

Invocations == 1..NumInvocations

VARIABLES
    env,     \* process.env.GEMINI_API_KEY
    pc,      \* per invocation: idle, awaitFetch, awaitText, awaitJson, done
    req,     \* per invocation: the request it was called with
    resp,    \* per invocation: the responses sent through response.status().json()
    logs,    \* per invocation: the console.error entries it wrote
    calls,   \* per invocation: the fetch calls it issued
    effects, \* per invocation: its observable effects, in order: "read body",
             \* "read env", "log", "fetch", "respond"
    up       \* per invocation: what its fetch call and body read produced

vars == <<env, pc, req, resp, logs, calls, effects, up>>

----------------------------------------------------------------------------
\* JavaScript values

Undefined == [type |-> "undefined"]

Null == [type |-> "null"]

Str(s) == [type |-> "string", val |-> s]

Obj(props) == [type |-> "object", props |-> props]

\* !v of JavaScript, for the kinds of value a JSON body or an environment
\* variable can hold here.
Falsy(v) ==
    \/ v.type \in {"undefined", "null"}
    \/ v.type = "string" /\ v.val = ""

\* obj.key for an object value: a missing property reads as undefined.
GetProp(obj, key) ==
    IF key \in DOMAIN obj.props THEN obj.props[key] ELSE Undefined

----------------------------------------------------------------------------
\* Inputs

Methods == {"POST", "GET", "OPTIONS"}

Topics == {"online English course", "pour-over coffee"}

EmptyProps == [k \in {} |-> Undefined]

TopicProps(v) == [k \in {"topic"} |-> v]

\* request.body: absent (undefined or null), an object without topic, with a
\* null or empty topic, or with a topic.
Bodies ==
    {Undefined, Null, Obj(EmptyProps), Obj(TopicProps(Null)), Obj(TopicProps(Str("")))}
        \cup {Obj(TopicProps(Str(t))) : t \in Topics}

Requests == [method : Methods, body : Bodies]

NoRequest == [method |-> "", body |-> Undefined]

\* GEMINI_API_KEY: unset, set to the empty string, or set.
EnvValues == {Undefined, Str(""), Str("SECRET-KEY")}

GoodJsonText == "[{behavior:b1,audiences:[a1..a8]}]"

ShortJsonText == "[{behavior:b2,audiences:[a1,a2]}]"

BadJsonText == "<html>Service Unavailable</html>"

UpstreamTexts == {GoodJsonText, ShortJsonText, BadJsonText}

\* The answers fetch can resolve with: a success status with each body, and
\* failure statuses with a body that is not JSON and with one that is.
UpstreamAnswers ==
    {[status |-> 200, text |-> t] : t \in UpstreamTexts}
        \cup {[status |-> 429, text |-> BadJsonText],
              [status |-> 500, text |-> GoodJsonText]}

----------------------------------------------------------------------------
\* Errors

Error(name, message) == [name |-> name, message |-> message]

\* const { topic } = undefined / null
DestructureError ==
    Error("TypeError", <<"Cannot destructure property 'topic' of 'request.body'">>)

\* fetch() rejects when the transport fails
FetchFailed == Error("TypeError", <<"fetch failed">>)

\* text() / json() reject when the body stream breaks
BodyTerminated == Error("TypeError", <<"terminated">>)

JsonSyntaxError == Error("SyntaxError", <<"Unexpected token < in JSON">>)

----------------------------------------------------------------------------
\* String literals of the source

MethodNotAllowedMsg == "Method Not Allowed"

\* line 14
TopicRequiredMsg == "topic is required"

\* line 22
KeyMissingLog == "error: GEMINI_API_KEY environment variable not found"

\* line 23
KeyMissingMsg == "API key is not configured on the server"

\* line 66
GeminiErrorLog == "Gemini API error:"

\* line 67
RequestFailedPrefix == "Gemini API request failed, status code: "

\* line 76
ProxyErrorLog == "backend proxy error:"

\* line 77
InternalErrorMsg == "internal error in the backend server"

modelName == "gemini-2.5-flash-preview-05-20"

systemPrompt == "You are a market researcher ... answer in the given JSON structure."

----------------------------------------------------------------------------
\* The outbound request

apiUrl(apiKey) ==
    <<"https://generativelanguage.googleapis.com/v1beta/models/", modelName,
      ":generateContent?key=", apiKey.val>>

userQuery(topic) ==
    <<"For the topic: [", topic.val,
      "], generate 10 behaviours and 8-10 audiences under each.">>

responseSchema ==
    [type |-> "ARRAY",
     items |-> [type |-> "OBJECT",
                properties |-> [behavior |-> [type |-> "STRING"],
                                audiences |-> [type |-> "ARRAY",
                                               items |-> [type |-> "STRING"]]],
                required |-> <<"behavior", "audiences">>]]

payload(topic) ==
    [contents |-> <<[parts |-> <<[text |-> userQuery(topic)]>>]>>,
     systemInstruction |-> [parts |-> <<[text |-> systemPrompt]>>],
     generationConfig |-> [responseMimeType |-> "application/json",
                           responseSchema |-> responseSchema]]

FetchCall(apiKey, topic) ==
    [url |-> apiUrl(apiKey),
     method |-> "POST",
     headers |-> [ContentType |-> "application/json"],
     body |-> payload(topic)]

----------------------------------------------------------------------------
\* The upstream response

\* geminiResponse.ok
ResponseOk(status) == status >= 200 /\ status <= 299

Audiences(n) == [k \in 1..n |-> "audience"]

\* geminiResponse.json(): the value a body text parses to, or a SyntaxError.
JsonParse(text) ==
    CASE text = GoodJsonText ->
            [ok |-> TRUE,
             value |-> <<[behavior |-> "b1", audiences |-> Audiences(8)]>>]
      [] text = ShortJsonText ->
            [ok |-> TRUE,
             value |-> <<[behavior |-> "b2", audiences |-> Audiences(2)]>>]
      [] OTHER -> [ok |-> FALSE, error |-> JsonSyntaxError]

NoUpstream == [fetch |-> "none", status |-> 0, text |-> "", bodyRead |-> "none"]

----------------------------------------------------------------------------
\* The handler, on the local state s of one invocation

Local(i) ==
    [pc |-> pc[i], req |-> req[i], resp |-> resp[i], logs |-> logs[i],
     calls |-> calls[i], effects |-> effects[i], up |-> up[i]]

Store(i, s) ==
    /\ pc' = [pc EXCEPT ![i] = s.pc]
    /\ req' = [req EXCEPT ![i] = s.req]
    /\ resp' = [resp EXCEPT ![i] = s.resp]
    /\ logs' = [logs EXCEPT ![i] = s.logs]
    /\ calls' = [calls EXCEPT ![i] = s.calls]
    /\ effects' = [effects EXCEPT ![i] = s.effects]
    /\ up' = [up EXCEPT ![i] = s.up]
    /\ UNCHANGED env

\* response.status(status).json(body)
Send(s, status, body) ==
    [s EXCEPT !.resp = Append(@, [status |-> status, body |-> body]),
              !.effects = Append(@, "respond")]

\* console.error(msg, arg)
ConsoleError(s, msg, arg) ==
    [s EXCEPT !.logs = Append(@, [msg |-> msg, arg |-> arg]),
              !.effects = Append(@, "log")]

Read(s, what) == [s EXCEPT !.effects = Append(@, what)]

Return(s) == [s EXCEPT !.pc = "done"]

CatchBlock_silent(s, error) ==
    Return(ConsoleError(s, ProxyErrorLog, <<error.name>> \o error.message))

CatchBlock_leak(s, error) ==
    Return(Send(ConsoleError(s, ProxyErrorLog, <<error.name>> \o error.message),
                500, [error |-> InternalErrorMsg, details |-> <<s.up.text>>]))

\* catch (error) { ... }
CatchBlock(s, error) ==
    Return(Send(ConsoleError(s, ProxyErrorLog, <<error.name>> \o error.message),
                500, [error |-> InternalErrorMsg, details |-> error.message]))

MethodAllowed_options(method) == method \in {"POST", "OPTIONS"}

\* request.method !== 'POST'
MethodAllowed(method) == method = "POST"

MissingTopic_strict(topic) == topic.type = "undefined"

\* !topic
MissingTopic(topic) == Falsy(topic)

MissingKey_strict(apiKey) == apiKey.type = "undefined"

\* !apiKey
MissingKey(apiKey) == Falsy(apiKey)

KeyMissingBranch_quiet(s) ==
    Return(Send(s, 500, [error |-> KeyMissingMsg]))

\* if (!apiKey) { console.error(...); return response.status(500)... }
KeyMissingBranch(s) ==
    Return(Send(ConsoleError(s, KeyMissingLog, <<>>), 500, [error |-> KeyMissingMsg]))

\* await fetch(apiUrl, {...}): the call is issued and the handler suspends
IssueFetch(s, apiKey, topic) ==
    [s EXCEPT !.calls = Append(@, FetchCall(apiKey, topic)),
              !.effects = Append(@, "fetch"),
              !.pc = "awaitFetch"]

KeyCheck(s, topic) ==
    LET apiKey == env
        s1 == Read(s, "read env")
    IN  IF MissingKey(apiKey) THEN KeyMissingBranch(s1)
        ELSE IssueFetch(s1, apiKey, topic)

\* const { topic } = request.body; if (!topic) ...
TopicCheck(s) ==
    LET body == s.req.body
        s1 == Read(s, "read body")
    IN  IF body.type \in {"undefined", "null"} THEN CatchBlock(s1, DestructureError)
        ELSE LET topic == GetProp(body, "topic")
             IN  IF MissingTopic(topic)
                 THEN Return(Send(s1, 400, [error |-> TopicRequiredMsg]))
                 ELSE KeyCheck(s1, topic)

\* handler, from its entry to its first await or its return
handler(s) ==
    IF ~MethodAllowed(s.req.method)
    THEN Return(Send(s, 405, [error |-> MethodNotAllowedMsg]))
    ELSE TopicCheck(s)

\* fetch resolved with a response of this status and body
OnFetchResolved(s, status, text) ==
    LET s1 == [s EXCEPT !.up = [fetch |-> "response", status |-> status,
                                text |-> text, bodyRead |-> "pending"]]
    IN  IF ~ResponseOk(status) THEN [s1 EXCEPT !.pc = "awaitText"]
        ELSE [s1 EXCEPT !.pc = "awaitJson"]

OnFetchRejected_retry(s, error) ==
    IF Len(s.calls) < 2
    THEN [s EXCEPT !.calls = Append(@, s.calls[1]), !.effects = Append(@, "fetch")]
    ELSE CatchBlock([s EXCEPT !.up.fetch = "rejected"], error)

\* fetch rejected: control passes to the catch block
OnFetchRejected(s, error) ==
    CatchBlock([s EXCEPT !.up.fetch = "rejected"], error)

\* new Error(`... ${geminiResponse.status}`)
UpstreamError(status) ==
    Error("Error", <<RequestFailedPrefix, ToString(status)>>)

\* text() resolved: log the upstream body and throw
OnTextResolved(s, errorText) ==
    CatchBlock(ConsoleError([s EXCEPT !.up.bodyRead = "ok"], GeminiErrorLog, <<errorText>>),
               UpstreamError(s.up.status))

\* text() or json() rejected because the body stream broke
OnBodyRejected(s, error) ==
    CatchBlock([s EXCEPT !.up.bodyRead = "failed"], error)

InRange(item) == Len(item.audiences) >= 8 /\ Len(item.audiences) <= 10

Relay_filtered(s, data) ==
    Return(Send(s, 200, SelectSeq(data, InRange)))

Relay_cached(s, data) ==
    LET Answered == {j \in Invocations : resp[j] # <<>> /\ resp[j][1].status = 200}
    IN  IF Answered = {} THEN Return(Send(s, 200, data))
        ELSE Return(Send(s, 200, resp[CHOOSE j \in Answered : TRUE][1].body))

\* response.status(200).json(data)
Relay(s, data) == Return(Send(s, 200, data))

\* json() settled on a body that arrived whole: parsed, or a SyntaxError
OnJsonSettled(s) ==
    LET r == JsonParse(s.up.text)
        s1 == [s EXCEPT !.up.bodyRead = "ok"]
    IN  IF r.ok THEN Relay(s1, r.value) ELSE CatchBlock(s1, r.error)

----------------------------------------------------------------------------
\* The state machine

Init ==
    /\ env \in EnvValues
    /\ pc = [i \in Invocations |-> "idle"]
    /\ req = [i \in Invocations |-> NoRequest]
    /\ resp = [i \in Invocations |-> <<>>]
    /\ logs = [i \in Invocations |-> <<>>]
    /\ calls = [i \in Invocations |-> <<>>]
    /\ effects = [i \in Invocations |-> <<>>]
    /\ up = [i \in Invocations |-> NoUpstream]

\* The platform calls handler(request, response).
Invoke(i) ==
    /\ pc[i] = "idle"
    /\ \E request \in Requests :
          Store(i, handler([Local(i) EXCEPT !.req = request]))

FetchResolve(i) ==
    /\ pc[i] = "awaitFetch"
    /\ \E answer \in UpstreamAnswers :
          Store(i, OnFetchResolved(Local(i), answer.status, answer.text))

FetchReject(i) ==
    /\ pc[i] = "awaitFetch"
    /\ Store(i, OnFetchRejected(Local(i), FetchFailed))

TextResolve(i) ==
    /\ pc[i] = "awaitText"
    /\ Store(i, OnTextResolved(Local(i), up[i].text))

TextReject(i) ==
    /\ pc[i] = "awaitText"
    /\ Store(i, OnBodyRejected(Local(i), BodyTerminated))

JsonSettle(i) ==
    /\ pc[i] = "awaitJson"
    /\ Store(i, OnJsonSettled(Local(i)))

JsonReject(i) ==
    /\ pc[i] = "awaitJson"
    /\ Store(i, OnBodyRejected(Local(i), BodyTerminated))

Next ==
    \E i \in Invocations :
        \/ Invoke(i)
        \/ FetchResolve(i)
        \/ FetchReject(i)
        \/ TextResolve(i)
        \/ TextReject(i)
        \/ JsonSettle(i)
        \/ JsonReject(i)

Spec == Init /\ [][Next]_vars

TypeOK ==
    /\ env \in EnvValues
    /\ \A i \in Invocations :
          /\ pc[i] \in {"idle", "awaitFetch", "awaitText", "awaitJson", "done"}
          /\ req[i] \in Requests \cup {NoRequest}
          /\ Len(resp[i]) <= 2
          /\ up[i].fetch \in {"none", "response", "rejected"}

----------------------------------------------------------------------------
\* Vocabulary of the properties

Started(i) == pc[i] # "idle"

Finished(i) == pc[i] = "done"

HasTopic(request) ==
    /\ request.body.type = "object"
    /\ ~Falsy(GetProp(request.body, "topic"))

\* POST, a non-empty topic and a configured credential
Validated(i) ==
    /\ Started(i)
    /\ req[i].method = "POST"
    /\ HasTopic(req[i])
    /\ ~Falsy(env)

UpstreamFailed(i) ==
    \/ up[i].fetch = "rejected"
    \/ up[i].fetch = "response" /\ ~ResponseOk(up[i].status)

NonEmptyMessage(m) == Len(m) > 0 /\ \E k \in 1..Len(m) : m[k] # ""

\* index of the first occurrence of an effect, 0 when there is none
FirstIndex(seq, e) ==
    IF \E k \in 1..Len(seq) : seq[k] = e
    THEN CHOOSE k \in 1..Len(seq) : seq[k] = e /\ \A j \in 1..(k - 1) : seq[j] # e
    ELSE 0

----------------------------------------------------------------------------
\* C1: on every path an invocation sends exactly one response: none is
\* missing once it has finished, and never a second one is sent.
C1_ExactlyOneResponse ==
    \A i \in Invocations :
        /\ Len(resp[i]) <= 1
        /\ Finished(i) => Len(resp[i]) = 1

\* An invocation finished through the catch block after a 2xx answer whose
\* body is not JSON, another one finished on the 405 branch.
C1_Witness ==
    \E i, j \in Invocations :
        /\ Finished(i) /\ up[i].fetch = "response" /\ ResponseOk(up[i].status)
        /\ up[i].bodyRead = "ok" /\ ~JsonParse(up[i].text).ok
        /\ Len(resp[i]) = 1
        /\ Finished(j) /\ req[j].method # "POST" /\ Len(resp[j]) = 1

\* C2: a validated request whose upstream call returns a success status with
\* a JSON body is answered with status 200 and exactly the parsed body.
C2_RelayVerbatim ==
    \A i \in Invocations :
        ( /\ Finished(i) /\ Validated(i)
          /\ up[i].fetch = "response" /\ ResponseOk(up[i].status)
          /\ up[i].bodyRead = "ok" /\ JsonParse(up[i].text).ok )
        => resp[i] = <<[status |-> 200, body |-> JsonParse(up[i].text).value]>>

\* A body whose audiences array has two entries was passed through.
C2_Witness ==
    \E i \in Invocations :
        /\ Finished(i) /\ Validated(i)
        /\ up[i].status = 200 /\ up[i].text = ShortJsonText /\ up[i].bodyRead = "ok"
        /\ resp[i][1].status = 200
        /\ Len(resp[i][1].body[1].audiences) = 2

\* C3: a validated request whose upstream call fails in transport or returns
\* a non-success status is answered with status 500, an error field and a
\* non-empty details message; the upstream body is logged once it was read
\* and is in no field of the response.
C3_UpstreamFailure ==
    \A i \in Invocations :
        (Finished(i) /\ Validated(i) /\ UpstreamFailed(i)) =>
            /\ Len(resp[i]) = 1
            /\ resp[i][1].status = 500
            /\ DOMAIN resp[i][1].body = {"error", "details"}
            /\ NonEmptyMessage(resp[i][1].body.details)
            /\ up[i].fetch = "response" =>
                  /\ resp[i][1].body.error # up[i].text
                  /\ \A k \in 1..Len(resp[i][1].body.details) :
                        resp[i][1].body.details[k] # up[i].text
                  /\ up[i].bodyRead = "ok" =>
                        \E k \in 1..Len(logs[i]) : logs[i][k].arg = <<up[i].text>>

\* An upstream 429 whose body was read, and a transport failure.
C3_Witness ==
    \E i, j \in Invocations :
        /\ Finished(i) /\ Validated(i) /\ up[i].fetch = "response"
        /\ up[i].status = 429 /\ up[i].bodyRead = "ok" /\ resp[i][1].status = 500
        /\ Finished(j) /\ Validated(j) /\ up[j].fetch = "rejected"
        /\ resp[j][1].status = 500

\* C4: a request whose method is not POST is answered 405
\* {error: "Method Not Allowed"}, whatever its body and the credential; the
\* response is the only effect: no body read, no credential read, no call.
C4_MethodNotAllowed ==
    \A i \in Invocations :
        (Started(i) /\ req[i].method # "POST") =>
            /\ Finished(i)
            /\ resp[i] = <<[status |-> 405, body |-> [error |-> "Method Not Allowed"]]>>
            /\ effects[i] = <<"respond">>
            /\ calls[i] = <<>>

\* An OPTIONS request carrying a topic, with the credential configured.
C4_Witness ==
    \E i \in Invocations :
        /\ Finished(i) /\ req[i].method = "OPTIONS" /\ HasTopic(req[i])
        /\ ~Falsy(env) /\ resp[i][1].status = 405

\* C5: a POST whose body object has topic absent, null or empty is answered
\* 400 with only an error field, before the credential is looked at and
\* without an upstream call.
C5_MissingTopic ==
    \A i \in Invocations :
        ( /\ Started(i) /\ req[i].method = "POST"
          /\ req[i].body.type = "object" /\ ~HasTopic(req[i]) ) =>
            /\ Finished(i)
            /\ Len(resp[i]) = 1
            /\ resp[i][1].status = 400
            /\ DOMAIN resp[i][1].body = {"error"}
            /\ effects[i] = <<"read body", "respond">>
            /\ calls[i] = <<>>

\* The three shapes of a missing topic, without and with a credential.
C5_Witness ==
    \E i, j \in Invocations :
        /\ Finished(i) /\ req[i].method = "POST"
        /\ req[i].body = Obj(TopicProps(Str(""))) /\ resp[i][1].status = 400
        /\ Finished(j) /\ req[j].method = "POST"
        /\ req[j].body \in {Obj(EmptyProps), Obj(TopicProps(Null))}
        /\ resp[j][1].status = 400

\* C6: a POST with a topic and no credential (unset or empty) is answered
\* 500 with an error field and no details field, after a log entry, and
\* without an upstream call.
C6_MissingCredential ==
    \A i \in Invocations :
        ( /\ Started(i) /\ req[i].method = "POST"
          /\ HasTopic(req[i]) /\ Falsy(env) ) =>
            /\ Finished(i)
            /\ Len(resp[i]) = 1
            /\ resp[i][1].status = 500
            /\ DOMAIN resp[i][1].body = {"error"}
            /\ Len(logs[i]) = 1
            /\ effects[i] = <<"read body", "read env", "log", "respond">>
            /\ calls[i] = <<>>

\* The credential is set to the empty string.
C6_Witness ==
    \E i \in Invocations :
        /\ Finished(i) /\ req[i].method = "POST" /\ HasTopic(req[i])
        /\ env = Str("") /\ resp[i][1].status = 500

\* C7: an invocation issues at most one upstream call and never repeats it;
\* exactly one when all three validations pass, after they have passed, and
\* none when a validation fails.
C7_AtMostOneCall ==
    \A i \in Invocations :
        /\ Len(calls[i]) <= 1
        /\ Validated(i) =>
              /\ Len(calls[i]) = 1
              /\ FirstIndex(effects[i], "read body") > 0
              /\ FirstIndex(effects[i], "read body") < FirstIndex(effects[i], "read env")
              /\ FirstIndex(effects[i], "read env") < FirstIndex(effects[i], "fetch")
        /\ ~Validated(i) => Len(calls[i]) = 0

\* An invocation whose call failed has finished with its one call; another
\* one failed a validation.
C7_Witness ==
    \E i, j \in Invocations :
        /\ Finished(i) /\ up[i].fetch = "rejected" /\ Len(calls[i]) = 1
        /\ Finished(j) /\ ~Validated(j) /\ Len(calls[j]) = 0

\* What one invocation answers, from its own request, the credential and
\* the outcome of its own upstream call.
Expected(request, key, outcome) ==
    IF request.method # "POST"
    THEN [status |-> 405, body |-> [error |-> MethodNotAllowedMsg]]
    ELSE IF request.body.type # "object"
    THEN [status |-> 500,
          body |-> [error |-> InternalErrorMsg, details |-> DestructureError.message]]
    ELSE IF ~HasTopic(request)
    THEN [status |-> 400, body |-> [error |-> TopicRequiredMsg]]
    ELSE IF Falsy(key)
    THEN [status |-> 500, body |-> [error |-> KeyMissingMsg]]
    ELSE IF outcome.fetch = "rejected"
    THEN [status |-> 500,
          body |-> [error |-> InternalErrorMsg, details |-> FetchFailed.message]]
    ELSE IF outcome.bodyRead = "failed"
    THEN [status |-> 500,
          body |-> [error |-> InternalErrorMsg, details |-> BodyTerminated.message]]
    ELSE IF outcome.status \notin 200..299
    THEN [status |-> 500,
          body |-> [error |-> InternalErrorMsg,
                    details |-> <<RequestFailedPrefix, ToString(outcome.status)>>]]
    ELSE IF outcome.text = BadJsonText
    THEN [status |-> 500,
          body |-> [error |-> InternalErrorMsg, details |-> JsonSyntaxError.message]]
    ELSE [status |-> 200, body |-> JsonParse(outcome.text).value]

\* C8: interleaved invocations are independent: each one's response is
\* determined by its own request, the credential and its own upstream
\* result, and each validated request issues its own upstream call carrying
\* its own topic, also when another invocation had the same request.
C8_Independent ==
    \A i \in Invocations :
        /\ Finished(i) => resp[i] = <<Expected(req[i], env, up[i])>>
        /\ Validated(i) =>
              calls[i] = <<FetchCall(env, GetProp(req[i].body, "topic"))>>

\* Two invocations with the same valid request, both called upstream, got
\* different results; the first to answer 200 did so while the other was
\* still waiting.
C8_Witness ==
    \E i, j \in Invocations :
        /\ i # j /\ req[i] = req[j] /\ Validated(i) /\ Validated(j)
        /\ Len(calls[i]) = 1 /\ Len(calls[j]) = 1
        /\ Finished(i) /\ Finished(j)
        /\ resp[i][1].status = 200 /\ resp[j][1].status = 200
        /\ resp[i][1].body # resp[j][1].body

\* C9 as stated: every response whose status is not 200 is preceded by at
\* least one log entry.
C9_EveryFailureLogged ==
    \A i \in Invocations :
        (resp[i] # <<>> /\ resp[i][1].status # 200) =>
            /\ FirstIndex(effects[i], "log") > 0
            /\ FirstIndex(effects[i], "log") < FirstIndex(effects[i], "respond")

\* C9, amended: every response of status 500 is preceded by at least one log
\* entry; the 405 and 400 responses are sent without any log entry.
C9_ServerErrorsLogged ==
    \A i \in Invocations :
        resp[i] # <<>> =>
            /\ resp[i][1].status = 500 =>
                  /\ Len(logs[i]) >= 1
                  /\ FirstIndex(effects[i], "log") > 0
                  /\ FirstIndex(effects[i], "log") < FirstIndex(effects[i], "respond")
            /\ resp[i][1].status \in {400, 405} => logs[i] = <<>>

\* A 500 for the missing credential and a 400, side by side.
C9_Witness ==
    \E i, j \in Invocations :
        /\ resp[i] # <<>> /\ resp[i][1].status = 500 /\ Falsy(env) /\ Len(logs[i]) = 1
        /\ resp[j] # <<>> /\ resp[j][1].status = 400

\* C10: a POST without a body (request.body undefined or null) is answered
\* 400 with only an error field, not with the generic 500.
C10_NoBodyIsClientError ==
    \A i \in Invocations :
        ( /\ Finished(i) /\ req[i].method = "POST"
          /\ req[i].body.type \in {"undefined", "null"} ) =>
            /\ Len(resp[i]) = 1
            /\ resp[i][1].status = 400
            /\ DOMAIN resp[i][1].body = {"error"}

====
